---- MODULE Spec2Model ----
(***************************************************************************)
(* Model of utils.py / config.py of the Brazilian e-commerce pipeline.     *)
(*                                                                         *)
(* The functions of utils.py are pure table transformations.  A table      *)
(* (pandas DataFrame) is a record [cols, rows]: cols is the set of its     *)
(* column names, rows the sequence of its rows, each row a function from   *)
(* cols to cells.  Identifiers, amounts and dates are integers (a date is  *)
(* a whole day number, a timestamp of calcola_metriche_temporali a number  *)
(* of half days); NaN is the missing cell.  Labels are strings and         *)
(* NaNLabel is the missing label.                                          *)
(*                                                                         *)
(* A behaviour is one call: fn is the function called, inp its arguments,  *)
(* pc is "ready" before the call and "done" after it, out is what the call *)
(* returned.                                                               *)
(***************************************************************************)
EXTENDS Integers, Sequences, FiniteSets, TLC

VARIABLES fn, inp, out, pc

vars == <<fn, inp, out, pc>>

\* ------------------------------------------------------------------ bounds
\* Rows of an order table given to segmenta_clienti.
MaxRows == 4
\* Rows of a payments table given to aggrega_pagamenti.
MaxPagRows == 3
\* Rows of an items table given to aggrega_order_items.
MaxItemRows == 2
\* Rows of a reviews table given to aggrega_reviews.
MaxRevRows == 2
\* Rows of a table given to crea_categorie_binning.
MaxBinRows == 2
\* Largest edge of the binnings that are not those of config.py.
MaxEdge == 4
\* Rows of a table given to traduci_dataset.
MaxTradRows == 2
\* Rows of an order table given to calcola_metriche_temporali.
MaxTempRows == 2
\* Rows of a table given to the segmenter or an aggregator when the columns
\* of the table are what is looked at.
MaxLookupRows == 2

\* ------------------------------------------------------------- missing data
\* pandas' missing value in a numeric, identifier or date cell.
NaN == -1
\* pandas' missing value in a label (categorical / object) cell.
NaNLabel == "NaN"
\* Python's None for a column name that was not resolved.
None == "None"
\* float('inf') of the binning edges: above every amount of the model.
Inf == 1000000

\* ------------------------------------------------------------------ tables
\* pd.DataFrame(): no columns, no rows.
EmptyFrame == [cols |-> {}, rows |-> <<>>]

\* df.empty: no rows or no columns.
IsEmpty(df) == df.cols = {} \/ df.rows = <<>>

Indices(s) == 1..Len(s)

SetMin(S) == CHOOSE m \in S : \A x \in S : m <= x

SetMax(S) == CHOOSE m \in S : \A x \in S : m >= x

\* The elements of a finite set of integers in increasing order.
RECURSIVE SortedSeq(_)
SortedSeq(S) ==
    IF S = {} THEN <<>>
    ELSE LET m == SetMin(S) IN <<m>> \o SortedSeq(S \ {m})

\* The ascending sort of a sequence of integers (duplicates kept).
SortValues(s) == SortSeq(s, LAMBDA a, b : a < b)

\* The loop without its `break`: the last candidate that is a column.
TrovaColonnaSenzaBreak(candidates, columns) ==
    LET presenti == {i \in Indices(candidates) : candidates[i] \in columns}
    IN  IF presenti = {} THEN None ELSE candidates[SetMax(presenti)]

\* `for col in candidates: if col in df.columns: ...; break`: the first
\* candidate, in list order, that is a column of the table; None otherwise.
RECURSIVE TrovaColonna(_, _)
TrovaColonna(candidates, columns) ==
    IF candidates = <<>> THEN None
    ELSE IF Head(candidates) \in columns THEN Head(candidates)
    ELSE TrovaColonna(Tail(candidates), columns)

\* A groupby that keeps one group per row instead of one per distinct key.
GroupKeysPerRow(df, col) == [i \in Indices(df.rows) |-> df.rows[i][col]]

\* df.groupby(col): the group keys, sorted, the missing key dropped.
GroupKeys(df, col) == SortedSeq({df.rows[i][col] : i \in Indices(df.rows)} \ {NaN})

\* The cells of column col in the rows of group key (under key column by),
\* in row order.
RECURSIVE GroupCells(_, _, _, _)
GroupCells(rows, by, key, col) ==
    IF rows = <<>> THEN <<>>
    ELSE (IF Head(rows)[by] = key THEN <<Head(rows)[col]>> ELSE <<>>)
         \o GroupCells(Tail(rows), by, key, col)

\* 'sum': missing cells are skipped, the sum of nothing is 0.
RECURSIVE AggSum(_)
AggSum(cells) ==
    IF cells = <<>> THEN 0
    ELSE (IF Head(cells) = NaN THEN 0 ELSE Head(cells)) + AggSum(Tail(cells))

NonNull(cells) == {cells[i] : i \in Indices(cells)} \ {NaN}

\* 'count': the number of non-missing cells.
AggCount(cells) == Cardinality({i \in Indices(cells) : cells[i] # NaN})

\* 'count' where 'nunique' is meant: orders counted once per row.
AggNuniqueAsCount(cells) == AggCount(cells)

\* 'nunique': the number of distinct non-missing cells.
AggNunique(cells) == Cardinality(NonNull(cells))

\* 'min' / 'max': over the non-missing cells, missing when there is none.
AggMin(cells) == IF NonNull(cells) = {} THEN NaN ELSE SetMin(NonNull(cells))

AggMax(cells) == IF NonNull(cells) = {} THEN NaN ELSE SetMax(NonNull(cells))

\* --------------------------------------------------------- config.py
BINNING_CONFIG ==
    [volume_prodotto |->
        [bins |-> <<0, 1000, 5000, 20000, Inf>>,
         labels |-> <<"Piccolo", "Medio", "Grande", "Molto Grande">>],
     peso_prodotto |->
        [bins |-> <<0, 500, 1000, 2000, Inf>>,
         labels |-> <<"Leggero", "Medio", "Pesante", "Molto Pesante">>],
     valore_ordine |->
        [bins |-> <<0, 50, 150, 300, Inf>>,
         labels |-> <<"Basso", "Medio", "Alto", "Premium">>],
     giorni_consegna |->
        [bins |-> <<0, 7, 14, 21, Inf>>,
         labels |-> <<"Veloce", "Normale", "Lento", "Molto Lento">>],
     frequenza_ordini |->
        [bins |-> <<0, 1, 3, Inf>>,
         labels |-> <<"Bassa", "Media", "Alta">>]]

BinsFrequenza == BINNING_CONFIG.frequenza_ordini.bins
LabelsFrequenza == BINNING_CONFIG.frequenza_ordini.labels

TRADUZIONE_COLONNE ==
    [customer_id |-> "id_cliente",
     customer_unique_id |-> "id_cliente_unico",
     customer_zip_code_prefix |-> "cap_cliente",
     customer_city |-> "citta_cliente",
     customer_state |-> "stato_cliente",
     order_id |-> "id_ordine",
     order_status |-> "stato_ordine",
     order_purchase_timestamp |-> "data_acquisto",
     order_approved_at |-> "data_approvazione",
     order_delivered_carrier_date |-> "data_spedizione",
     order_delivered_customer_date |-> "data_consegna",
     order_estimated_delivery_date |-> "data_consegna_stimata",
     order_item_id |-> "id_articolo_ordine",
     product_id |-> "id_prodotto",
     seller_id |-> "id_venditore",
     shipping_limit_date |-> "data_limite_spedizione",
     price |-> "prezzo",
     freight_value |-> "costo_spedizione",
     payment_sequential |-> "sequenza_pagamento",
     payment_type |-> "tipo_pagamento",
     payment_installments |-> "rate_pagamento",
     payment_value |-> "valore_pagamento",
     review_id |-> "id_recensione",
     review_score |-> "punteggio_recensione",
     review_comment_title |-> "titolo_commento",
     review_comment_message |-> "messaggio_commento",
     review_creation_date |-> "data_creazione_recensione",
     review_answer_timestamp |-> "data_risposta_recensione",
     seller_zip_code_prefix |-> "cap_venditore",
     seller_city |-> "citta_venditore",
     seller_state |-> "stato_venditore",
     product_category_name |-> "categoria_prodotto",
     product_name_lenght |-> "lunghezza_nome_prodotto",
     product_description_lenght |-> "lunghezza_descrizione",
     product_photos_qty |-> "numero_foto",
     product_weight_g |-> "peso_prodotto_g",
     product_length_cm |-> "lunghezza_prodotto_cm",
     product_height_cm |-> "altezza_prodotto_cm",
     product_width_cm |-> "larghezza_prodotto_cm",
     geolocation_zip_code_prefix |-> "cap_geolocalizzazione",
     geolocation_lat |-> "latitudine",
     geolocation_lng |-> "longitudine",
     geolocation_city |-> "citta_geolocalizzazione",
     geolocation_state |-> "stato_geolocalizzazione"]

TRADUZIONE_STATI_ORDINE ==
    [delivered |-> "consegnato",
     shipped |-> "spedito",
     canceled |-> "cancellato",
     unavailable |-> "non_disponibile",
     invoiced |-> "fatturato",
     processing |-> "in_elaborazione",
     created |-> "creato",
     approved |-> "approvato"]

\* A payment-type map that swaps two types instead of keeping them.
TraduzionePagamentiScambiata ==
    [credit_card |-> "carta_di_credito",
     boleto |-> "voucher",
     voucher |-> "boleto",
     debit_card |-> "carta_di_debito",
     not_defined |-> "non_definito"]

TRADUZIONE_PAGAMENTI ==
    [credit_card |-> "carta_di_credito",
     boleto |-> "boleto",
     voucher |-> "voucher",
     debit_card |-> "carta_di_debito",
     not_defined |-> "non_definito"]

\* ------------------------------------------------------------ pd.cut
\* searchsorted with side='right': intervals closed on the left.
SearchSortedRight(bins, x) == Cardinality({i \in Indices(bins) : bins[i] <= x})

\* bins.searchsorted(x, side='left'): how many edges are below x.
SearchSortedLeft(bins, x) == Cardinality({i \in Indices(bins) : bins[i] < x})

\* The labelling without include_lowest: the lowest edge is left out.
BinsToCutsSenzaMinimo(x, bins, labels, include_lowest) ==
    LET ids == SearchSortedLeft(bins, x)
    IN IF x = NaN \/ ids = Len(bins) \/ ids = 0 THEN NaNLabel ELSE labels[ids]

\* pandas' _bins_to_cuts for right-closed intervals: the label of x.
BinsToCuts(x, bins, labels, include_lowest) ==
    LET ids0 == SearchSortedLeft(bins, x)
        ids  == IF include_lowest /\ x = bins[1] THEN 1 ELSE ids0
    IN IF x = NaN \/ ids = Len(bins) \/ ids = 0 THEN NaNLabel ELSE labels[ids]

\* ----------------------------------------------------------- pd.qcut
\* q of pd.qcut(..., q=3, ...).
Q == 3
LabelsValore == <<"Basso", "Medio", "Alto">>

\* series.quantile(j/q) by linear interpolation, times q so that it stays an
\* integer: sorted is the ascending series, the position j*(n-1)/q falls
\* between sorted[k+1] and sorted[k+2].
QuantileTimesQ(sorted, j, q) ==
    LET p == j * (Len(sorted) - 1)
        k == p \div q
        r == p % q
    IN IF r = 0 THEN q * sorted[k + 1]
       ELSE q * sorted[k + 1] + r * (sorted[k + 2] - sorted[k + 1])

\* pd.qcut(series, q, labels, duplicates='drop'): the labels of the series, or
\* raised when pandas raises ValueError: quantiles of an empty series are
\* missing, duplicate edges are dropped, and the labels must then be one fewer
\* than the edges left.
QcutRaise == [raised |-> TRUE, labels |-> <<>>]

Qcut(series, q, labels) ==
    IF series = <<>> THEN QcutRaise
    ELSE LET sorted == SortValues(series)
             edges  == [j \in 1..(q + 1) |-> QuantileTimesQ(sorted, j - 1, q)]
             unique == SortedSeq({edges[j] : j \in Indices(edges)})
             bins   == IF Len(unique) < Len(edges) /\ Len(edges) # 2
                       THEN unique ELSE edges
         IN IF Len(labels) # Len(bins) - 1 THEN QcutRaise
            ELSE [raised |-> FALSE,
                  labels |-> [i \in Indices(series) |->
                     IF series[i] = NaN THEN NaNLabel
                     ELSE BinsToCuts(q * series[i], bins, labels, TRUE)]]

\* ------------------------------------------------- segmenta_clienti
CandidatiCliente == <<"id_cliente", "customer_id">>
CandidatiOrdine == <<"id_ordine", "order_id">>
CandidatiValore == <<"totale_ordine_eur", "valore_pagamento_eur", "pagamento_totale">>
CandidatiData == <<"data_acquisto", "order_purchase_timestamp">>

StatsColumns ==
    {"id_cliente", "num_ordini", "spesa_totale", "primo_acquisto",
     "ultimo_acquisto", "vita_cliente_giorni", "spesa_media_ordine"}

\* timedelta.dt.days of b - a: missing when an end is missing.
Days(a, b) == IF a = NaN \/ b = NaN THEN NaN ELSE b - a

\* One row of clienti_stats before the segment columns: the aggregates of
\* the rows of customer key.  spesa_media_ordine is the exact quotient
\* spesa_totale / num_ordini, kept as numerator and denominator.
ClienteStats(df, key, id_cliente_col, id_ordine_col, valore_col, data_col) ==
    LET ordini == GroupCells(df.rows, id_cliente_col, key, id_ordine_col)
        valori == GroupCells(df.rows, id_cliente_col, key, valore_col)
        date   == GroupCells(df.rows, id_cliente_col, key, data_col)
    IN [id_cliente          |-> key,
        num_ordini          |-> AggNunique(ordini),
        spesa_totale        |-> AggSum(valori),
        primo_acquisto      |-> AggMin(date),
        ultimo_acquisto     |-> AggMax(date),
        vita_cliente_giorni |-> Days(AggMin(date), AggMax(date)),
        spesa_media_ordine  |-> [num |-> AggSum(valori), den |-> AggNunique(ordini)]]

\* `if not all([id_cliente_col, id_ordine_col, valore_col, data_col])`.
ColonneMancanti(id_cliente_col, id_ordine_col, valore_col, data_col) ==
    ~ (id_cliente_col # None /\ id_ordine_col # None
       /\ valore_col # None /\ data_col # None)

\* An early return that loses the order table.
RitornoVuoto(df) == [df |-> EmptyFrame, stats |-> EmptyFrame]

\* `return df, pd.DataFrame()`.
RitornoSenzaStats(df) == [df |-> df, stats |-> EmptyFrame]

\* segmenta_clienti(df): the pair (df, clienti_stats).
segmenta_clienti(df) ==
    LET id_cliente_col == TrovaColonna(CandidatiCliente, df.cols)
        id_ordine_col  == TrovaColonna(CandidatiOrdine, df.cols)
        valore_col     == TrovaColonna(CandidatiValore, df.cols)
        data_col       == TrovaColonna(CandidatiData, df.cols)
    IN IF ColonneMancanti(id_cliente_col, id_ordine_col, valore_col, data_col)
       THEN RitornoSenzaStats(df)
       ELSE
         LET keys  == GroupKeys(df, id_cliente_col)
             base  == [i \in Indices(keys) |->
                         ClienteStats(df, keys[i], id_cliente_col, id_ordine_col,
                                      valore_col, data_col)]
             \* pd.cut(num_ordini, bins, labels): no exception with these bins
             freq  == [i \in Indices(keys) |->
                         BinsToCuts(base[i].num_ordini, BinsFrequenza,
                                    LabelsFrequenza, FALSE)]
             \* pd.qcut inside try / except: on an exception the column
             \* segmento_valore is not created
             val   == Qcut([i \in Indices(keys) |-> base[i].spesa_totale],
                           Q, LabelsValore)
             rows  == [i \in Indices(keys) |->
                         base[i] @@ [segmento_frequenza |-> freq[i]]
                         @@ (IF val.raised THEN <<>>
                             ELSE [segmento_valore |-> val.labels[i]])]
             cols  == StatsColumns \cup {"segmento_frequenza"}
                      \cup (IF val.raised THEN {} ELSE {"segmento_valore"})
         IN [df |-> df, stats |-> [cols |-> cols, rows |-> rows]]

\* -------------------------------------------------------------- inputs
\* The choices of n rows or fewer among the rows of pool, in any order and
\* with repetitions: sequences of indices of pool.
Scelte(pool, n) == UNION {[1..m -> Indices(pool)] : m \in 0..n}

\* The same with the rows in pool order, for a function whose result does
\* not depend on the order of the rows.
ScelteInOrdine(pool, n) ==
    {s \in Scelte(pool, n) : \A i \in 1..(Len(s) - 1) : s[i] <= s[i + 1]}

\* The tables with the columns of any subset of columns and the rows of a
\* choice among scelte.
Tables(columns, pool, scelte) ==
    {[cols |-> c, rows |-> [i \in Indices(s) |-> [k \in c |-> pool[s[i]][k]]]] :
        c \in SUBSET columns, s \in scelte}

SegColumns ==
    {"id_cliente", "customer_id", "id_ordine", "order_id", "totale_ordine_eur",
     "valore_pagamento_eur", "pagamento_totale", "data_acquisto",
     "order_purchase_timestamp"}

\* An order row: customer cli, order ord, amount val, purchased on day.  The
\* untranslated and the fallback columns hold other data than the first
\* candidates, so that the column a lookup chose shows in the result, and
\* some of their cells are missing.
Riga(cli, ord, val, day) ==
    [id_cliente |-> cli, customer_id |-> IF cli = 2 THEN NaN ELSE 9,
     id_ordine |-> ord, order_id |-> IF cli = 3 THEN NaN ELSE 1,
     totale_ordine_eur |-> val, valore_pagamento_eur |-> val + 1,
     pagamento_totale |-> 10,
     data_acquisto |-> day, order_purchase_timestamp |-> day + 1]

\* The order rows the tables are made of: customer 1 with orders of 50, 100,
\* 150 on days 1, 10, 20 and an order of 10 on day 5; customer 2 with one
\* order of 10 on day 5; customer 3 with one order of 50 on day 10.
RighePool ==
    <<Riga(1, 1, 50, 1), Riga(1, 2, 100, 10), Riga(1, 3, 150, 20),
      Riga(2, 4, 10, 5), Riga(3, 5, 50, 10), Riga(1, 6, 10, 5)>>

\* segmenta_clienti groups by customer and sorts the groups: the order of the
\* rows does not reach its result, and the rows are taken in pool order.
SegTables(n) == Tables(SegColumns, RighePool, ScelteInOrdine(RighePool, n))

\* ------------------------------------------------------- aggregations
CandidatiIdOrdine == <<"id_ordine", "order_id">>

\* The order of strings (Python's str comparison) on the payment types.
Lessico ==
    [boleto |-> 1, credit_card |-> 2, debit_card |-> 3, not_defined |-> 4,
     voucher |-> 5]

Occorrenze(cells, v) == Cardinality({i \in Indices(cells) : cells[i] = v})

\* The first value met, in row order, among the most frequent ones.
ModaPrimoIncontrato(cells) ==
    LET vals == {cells[i] : i \in Indices(cells)} \ {NaNLabel}
        top  == {v \in vals : \A w \in vals : Occorrenze(cells, w) <= Occorrenze(cells, v)}
    IN IF top = {} THEN NaNLabel
       ELSE cells[SetMin({i \in Indices(cells) : cells[i] \in top})]

\* `lambda x: x.mode().iloc[0] if not x.mode().empty else None`: Series.mode
\* drops the missing cells and returns the most frequent values sorted, so
\* iloc[0] is the smallest of them; None (a missing cell) when there is none.
Moda(cells) ==
    LET vals == {cells[i] : i \in Indices(cells)} \ {NaNLabel}
        top  == {v \in vals : \A w \in vals : Occorrenze(cells, w) <= Occorrenze(cells, v)}
    IN IF top = {} THEN NaNLabel
       ELSE CHOOSE v \in top : \A w \in top : Lessico[v] <= Lessico[w]

\* 'mean': the exact quotient of the sum and the count of the non-missing
\* cells, kept as numerator and denominator; missing when there is none.
AggMean(cells) ==
    IF AggCount(cells) = 0 THEN [num |-> NaN, den |-> NaN]
    ELSE [num |-> AggSum(cells), den |-> AggCount(cells)]

\* An agg_dict entry is <<output column, source column, aggregation>>; Agg
\* applies the aggregation to the cells of a group.
Agg(how, cells) ==
    CASE how = "sum" -> AggSum(cells)
      [] how = "max" -> AggMax(cells)
      [] how = "count" -> AggCount(cells)
      [] how = "mean" -> AggMean(cells)
      [] how = "mode" -> Moda(cells)

\* df.groupby(id_col).agg(**agg_dict).reset_index(): one row per group key,
\* holding the key and one cell per agg_dict entry.
GroupByAgg(df, id_col, agg_dict) ==
    LET keys == GroupKeys(df, id_col)
        names == {agg_dict[e][1] : e \in Indices(agg_dict)}
        entry(n) == CHOOSE e \in Indices(agg_dict) : agg_dict[e][1] = n
    IN [cols |-> {id_col} \cup names,
        rows |-> [i \in Indices(keys) |->
                    [c \in {id_col} \cup names |->
                        IF c = id_col THEN keys[i]
                        ELSE Agg(agg_dict[entry(c)][3],
                                 GroupCells(df.rows, id_col, keys[i],
                                            agg_dict[entry(c)][2]))]]]

\* `if col: agg_dict[name] = (col, how)`.
Voce(name, col, how) == IF col = None THEN <<>> ELSE <<(<<name, col, how>>)>>

\* An agg_dict of the payment amount alone.
AggDictSoloValore(val_col, seq_col, type_col) ==
    Voce("pagamento_totale", val_col, "sum")

\* agg_dict of aggrega_pagamenti.
AggDictPagamenti(val_col, seq_col, type_col) ==
    Voce("pagamento_totale", val_col, "sum")
    \o Voce("num_pagamenti", seq_col, "max")
    \o Voce("tipo_pagamento_principale", type_col, "mode")

aggrega_pagamenti(df_pagamenti) ==
    IF IsEmpty(df_pagamenti) THEN EmptyFrame
    ELSE LET id_col   == TrovaColonna(CandidatiIdOrdine, df_pagamenti.cols)
             val_col  == TrovaColonna(<<"valore_pagamento_eur", "payment_value",
                                        "valore_pagamento">>, df_pagamenti.cols)
             type_col == TrovaColonna(<<"tipo_pagamento", "payment_type">>,
                                      df_pagamenti.cols)
             seq_col  == TrovaColonna(<<"sequenza_pagamento", "payment_sequential">>,
                                      df_pagamenti.cols)
             agg_dict == AggDictPagamenti(val_col, seq_col, type_col)
         IN IF id_col = None THEN EmptyFrame
            ELSE IF agg_dict = <<>> THEN EmptyFrame
            ELSE GroupByAgg(df_pagamenti, id_col, agg_dict)

aggrega_order_items(df_items) ==
    IF IsEmpty(df_items) THEN EmptyFrame
    ELSE LET id_col      == TrovaColonna(CandidatiIdOrdine, df_items.cols)
             item_id_col == TrovaColonna(<<"id_articolo_ordine", "order_item_id">>,
                                         df_items.cols)
             price_col   == TrovaColonna(<<"prezzo_eur", "price", "prezzo">>,
                                         df_items.cols)
             freight_col == TrovaColonna(<<"costo_spedizione_eur", "freight_value",
                                           "costo_spedizione">>, df_items.cols)
             total_col   == TrovaColonna(<<"totale_articolo_eur", "totale_ordine_eur">>,
                                         df_items.cols)
             agg_dict    == Voce("num_articoli", item_id_col, "count")
                            \o Voce("prezzo_totale", price_col, "sum")
                            \o Voce("spedizione_totale", freight_col, "sum")
                            \o Voce("totale_ordine_eur", total_col, "sum")
         IN IF id_col = None THEN EmptyFrame
            ELSE IF agg_dict = <<>> THEN EmptyFrame
            ELSE GroupByAgg(df_items, id_col, agg_dict)

aggrega_reviews(df_reviews) ==
    IF IsEmpty(df_reviews) THEN EmptyFrame
    ELSE LET id_col        == TrovaColonna(CandidatiIdOrdine, df_reviews.cols)
             score_col     == TrovaColonna(<<"punteggio_recensione", "review_score">>,
                                           df_reviews.cols)
             review_id_col == TrovaColonna(<<"id_recensione", "review_id">>,
                                           df_reviews.cols)
             agg_dict      == Voce("punteggio_medio", score_col, "mean")
                              \o Voce("num_recensioni", review_id_col, "count")
         IN IF id_col = None THEN EmptyFrame
            ELSE IF agg_dict = <<>> THEN EmptyFrame
            ELSE GroupByAgg(df_reviews, id_col, agg_dict)

\* ------------------------------------------------ inputs of the aggregations
PagColumns ==
    {"id_ordine", "order_id", "valore_pagamento_eur", "payment_value",
     "valore_pagamento", "tipo_pagamento", "payment_type", "sequenza_pagamento",
     "payment_sequential"}

\* A payment row: order ord, payment type tipo, amount val, sequence seq.
Pagamento(ord, tipo, val, seq) ==
    [id_ordine |-> ord, order_id |-> IF ord = 2 THEN NaN ELSE 7,
     valore_pagamento_eur |-> val, payment_value |-> val + 1, valore_pagamento |-> 3,
     tipo_pagamento |-> tipo, payment_type |-> "credit_card",
     sequenza_pagamento |-> seq, payment_sequential |-> 1]

PagamentiPool ==
    <<Pagamento(1, "voucher", 10, 1), Pagamento(1, "boleto", 20, 2),
      Pagamento(2, NaNLabel, 5, 1)>>

PagTables(n) == Tables(PagColumns, PagamentiPool, Scelte(PagamentiPool, n))

ItemColumns ==
    {"id_ordine", "order_id", "id_articolo_ordine", "order_item_id", "prezzo_eur",
     "price", "prezzo", "costo_spedizione_eur", "freight_value", "costo_spedizione",
     "totale_articolo_eur", "totale_ordine_eur"}

\* An item row: order ord, item number item, price and freight.
Articolo(ord, item, price, freight) ==
    [id_ordine |-> ord, order_id |-> IF ord = 2 THEN NaN ELSE 7,
     id_articolo_ordine |-> item, order_item_id |-> NaN,
     prezzo_eur |-> price, price |-> 5 * price, prezzo |-> 5 * price + 1,
     costo_spedizione_eur |-> freight, freight_value |-> 5 * freight,
     costo_spedizione |-> 5 * freight + 1,
     totale_articolo_eur |-> price + freight, totale_ordine_eur |-> 2 * (price + freight)]

ArticoliPool == <<Articolo(1, 1, 10, 2), Articolo(1, 2, 30, 4), Articolo(2, 1, 10, 2)>>

ItemTables(n) == Tables(ItemColumns, ArticoliPool, ScelteInOrdine(ArticoliPool, n))

RevColumns ==
    {"id_ordine", "order_id", "punteggio_recensione", "review_score",
     "id_recensione", "review_id"}

\* A review row: order ord, review rev, score.
Recensione(ord, rev, score) ==
    [id_ordine |-> ord, order_id |-> IF ord = 2 THEN NaN ELSE 7,
     punteggio_recensione |-> score, review_score |-> NaN,
     id_recensione |-> rev, review_id |-> rev + 10]

RecensioniPool == <<Recensione(1, 1, 5), Recensione(1, 2, 2), Recensione(2, 3, 4)>>

RevTables(n) == Tables(RevColumns, RecensioniPool, ScelteInOrdine(RecensioniPool, n))

\* --------------------------------------------- crea_categorie_binning
\* crea_categorie_binning(df, colonna, bins, labels, nome_output): the table
\* with the category column added (or replaced), or the table as it is when
\* it has no column colonna.
crea_categorie_binning(df, colonna, bins, labels, nome_output) ==
    IF colonna \notin df.cols THEN df
    ELSE LET out_col == IF nome_output = None THEN colonna \o "_cat" ELSE nome_output
             cols    == df.cols \cup {out_col}
         IN [cols |-> cols,
             rows |-> [i \in Indices(df.rows) |->
                         [c \in cols |->
                             IF c = out_col
                             THEN BinsToCuts(df.rows[i][colonna], bins, labels, TRUE)
                             ELSE df.rows[i][c]]]]

\* The binnings given to it: those of config.py and the strictly increasing
\* edge lists of 2 or 3 edges up to MaxEdge, with one label per interval.
Etichette == <<"L1", "L2">>

Crescenti(e) ==
    {b \in UNION {[1..n -> 2..e] : n \in 2..3} :
        \A i \in 1..(Len(b) - 1) : b[i] < b[i + 1]}

Binnings(e) ==
    {BINNING_CONFIG[k] : k \in DOMAIN BINNING_CONFIG}
    \cup {[bins |-> b, labels |-> SubSeq(Etichette, 1, Len(b) - 1)] : b \in Crescenti(e)}

\* The cells tried against a list of edges: missing, below the lowest edge,
\* every edge and the value after every finite edge.
Campioni(bins) ==
    {NaN, bins[1] - 7}
    \cup {bins[i] : i \in Indices(bins)}
    \cup {bins[i] + 1 : i \in {j \in Indices(bins) : bins[j] # Inf}}

BinTables(bins, n) ==
    {[cols |-> c, rows |-> [i \in Indices(s) |-> [k \in c |-> IF k = "valore" THEN s[i] ELSE 7]]] :
        c \in {{"valore"}, {"valore", "altro"}, {"altro"}},
        s \in UNION {[1..m -> Campioni(bins)] : m \in 0..n}}

BinCalls(n, e) ==
    UNION {{[fn |-> "crea_categorie_binning",
             inp |-> [df |-> df, colonna |-> "valore", bins |-> b.bins,
                      labels |-> b.labels, nome_output |-> nome]] :
               df \in BinTables(b.bins, n), nome \in {None, "categoria"}} :
           b \in Binnings(e)}

\* ------------------------------------------------------ traduci_dataset
Translate(map, v) == IF v \in DOMAIN map THEN map[v] ELSE v

\* series.map(mappatura).fillna(series): a cell with an entry in the map gets
\* the entry, any other cell (a missing one too) keeps its value.
MapFillna(mappatura, cell) ==
    IF cell # NaNLabel /\ cell \in DOMAIN mappatura THEN mappatura[cell] ELSE cell

\* traduci_dataset(df, traduzione_colonne, traduzione_valori): the columns
\* renamed by traduzione_colonne, then the cells of every column named in
\* traduzione_valori that the renamed table has remapped by that column's
\* map.  traduzione_valori is a function from column names to maps, with an
\* empty domain for None.  No two columns of df may get the same name.
traduci_dataset(df, traduzione_colonne, traduzione_valori) ==
    LET cols    == {Translate(traduzione_colonne, c) : c \in df.cols}
        orig(n) == CHOOSE c \in df.cols : Translate(traduzione_colonne, c) = n
    IN [cols |-> cols,
        rows |-> [i \in Indices(df.rows) |->
                    [n \in cols |->
                        IF n \in DOMAIN traduzione_valori
                        THEN MapFillna(traduzione_valori[n], df.rows[i][orig(n)])
                        ELSE df.rows[i][orig(n)]]]]

\* The columns of the tables given to it: original names, translated names
\* and a name the map does not know.
TradColumns ==
    {"order_status", "stato_ordine", "payment_type", "tipo_pagamento", "order_id",
     "nota"}

\* The rows: original, translated and unknown values, and missing cells.
TradPool ==
    <<[order_status |-> "delivered", stato_ordine |-> "consegnato",
       payment_type |-> "credit_card", tipo_pagamento |-> "carta_di_credito",
       order_id |-> "o1", nota |-> "boleto"],
      [order_status |-> "shipped", stato_ordine |-> "canceled",
       payment_type |-> "boleto", tipo_pagamento |-> "voucher",
       order_id |-> "o2", nota |-> NaNLabel],
      [order_status |-> NaNLabel, stato_ordine |-> "sconosciuto",
       payment_type |-> "paypal", tipo_pagamento |-> NaNLabel,
       order_id |-> "delivered", nota |-> "credit_card"]>>

\* No two columns of the table get the same name.
SenzaCollisioni(cols) ==
    \A a, b \in cols :
        Translate(TRADUZIONE_COLONNE, a) = Translate(TRADUZIONE_COLONNE, b) => a = b

TradTables(n) ==
    {t \in Tables(TradColumns, TradPool, ScelteInOrdine(TradPool, n)) :
        SenzaCollisioni(t.cols)}

\* The value maps a caller passes: the two value maps of config.py, keyed by
\* the translated or by the original name of the column.
ValoriPossibili ==
    [stato_ordine |-> TRADUZIONE_STATI_ORDINE, order_status |-> TRADUZIONE_STATI_ORDINE,
     tipo_pagamento |-> TRADUZIONE_PAGAMENTI]

TradCalls(n) ==
    {[fn |-> "traduci_dataset",
      inp |-> [df |-> df,
               traduzione_valori |-> [k \in ks |-> ValoriPossibili[k]]]] :
        df \in TradTables(n), ks \in SUBSET DOMAIN ValoriPossibili}

\* ------------------------------------------- calcola_metriche_temporali
\* The timestamps of an order table have a time of day: a timestamp is a
\* number of half days since Monday 2018-01-01 00:00, NaN is NaT.
PerGiorno == 2

\* The missing value of a column of day counts, which can hold -1.
NaNGiorni == -1000000

\* A Timedelta whose days are read as if its fraction were cut off.
DtDaysTroncati(delta) ==
    IF delta < 0 THEN 0 - ((0 - delta) \div PerGiorno) ELSE delta \div PerGiorno

\* `.dt.days` of a Timedelta of delta half days: the days component, the
\* floor of the duration in days (-1.5 days is -2 days and 12 hours).
DtDays(delta) == delta \div PerGiorno

\* `(df_copy[a] - df_copy[b]).dt.days` on one row: NaT if an operand is.
GiorniTra(row, a, b) ==
    IF row[a] = NaN \/ row[b] = NaN THEN NaNGiorni ELSE DtDays(row[a] - row[b])

\* The months of a year without 29 February (2018, 2019), in days.
GiorniDelMese == <<31, 28, 31, 30, 31, 30, 31, 31, 30, 31, 30, 31>>

RECURSIVE MeseDi(_, _)
\* The month of day g (from 0) of the year, looked for from month m on.
MeseDi(g, m) ==
    IF g < GiorniDelMese[m] THEN m ELSE MeseDi(g - GiorniDelMese[m], m + 1)

GiorniDellAnno == 365

PrimoAnno == 2018

\* `.dt.year`.
DtYear(t) ==
    IF t = NaN THEN NaN ELSE PrimoAnno + (t \div PerGiorno) \div GiorniDellAnno

\* `.dt.to_period('M')`: the period year-month, as the number yyyymm.
DtToPeriodM(t) ==
    IF t = NaN THEN NaN
    ELSE DtYear(t) * 100 + MeseDi((t \div PerGiorno) % GiorniDellAnno, 1)

NomiGiorni ==
    <<"Monday", "Tuesday", "Wednesday", "Thursday", "Friday", "Saturday", "Sunday">>

\* `.dt.day_name()`.
DtDayName(t) ==
    IF t = NaN THEN NaNLabel ELSE NomiGiorni[((t \div PerGiorno) % 7) + 1]

\* `df_copy[nome] = celle`: the column is added, or replaced if it exists;
\* celle holds the cell of every row.
SetColumn(df, nome, celle) ==
    [cols |-> df.cols \cup {nome},
     rows |-> [i \in Indices(df.rows) |->
                  [k \in df.cols \cup {nome} |->
                      IF k = nome THEN celle[i] ELSE df.rows[i][k]]]]

\* `(df[a] - df[b]).dt.days`: the day counts of the rows of df.
ColonnaGiorni(df, a, b) == [i \in Indices(df.rows) |-> GiorniTra(df.rows[i], a, b)]

\* calcola_metriche_temporali(df): df is the caller's table after the call,
\* df_copy the table returned.
calcola_metriche_temporali(df) ==
    LET c0 == df
        c1 == IF {"data_consegna", "data_acquisto"} \subseteq c0.cols
              THEN SetColumn(c0, "giorni_consegna",
                             ColonnaGiorni(c0, "data_consegna", "data_acquisto"))
              ELSE c0
        c2 == IF {"data_consegna", "data_consegna_stimata"} \subseteq c1.cols
              THEN SetColumn(c1, "ritardo_consegna",
                             ColonnaGiorni(c1, "data_consegna", "data_consegna_stimata"))
              ELSE c1
        acquisto == [i \in Indices(c2.rows) |-> c2.rows[i]["data_acquisto"]]
        c3 == IF "data_acquisto" \in c2.cols
              THEN SetColumn(
                     SetColumn(
                       SetColumn(c2, "mese_acquisto",
                                 [i \in Indices(acquisto) |-> DtToPeriodM(acquisto[i])]),
                       "anno_acquisto",
                       [i \in Indices(acquisto) |-> DtYear(acquisto[i])]),
                     "giorno_settimana",
                     [i \in Indices(acquisto) |-> DtDayName(acquisto[i])])
              ELSE c2
    IN  [df |-> df, df_copy |-> c3]

TempColumns ==
    {"id_ordine", "data_acquisto", "data_approvazione", "data_spedizione",
     "data_consegna", "data_consegna_stimata", "giorni_consegna"}

\* An order row with its five timestamps; giorni_consegna is a column of
\* that name the table may already hold.
Ordine(id, acq, app, sped, cons, stim) ==
    [id_ordine |-> id, data_acquisto |-> acq, data_approvazione |-> app,
     data_spedizione |-> sped, data_consegna |-> cons,
     data_consegna_stimata |-> stim, giorni_consegna |-> 99]

OrdiniPool ==
    <<Ordine(1, 0, 1, 4, 9, 12),
      Ordine(2, 61, 62, NaN, NaN, 80),
      Ordine(3, 62, NaN, 66, 81, 80),
      Ordine(4, NaN, 3, 10, 11, 12)>>

TempTables(n) == Tables(TempColumns, OrdiniPool, Scelte(OrdiniPool, n))

\* ------------------------------------------------------------- actions
\* The calls a behaviour may start from: the function and its arguments.
SegCalls(n) == {[fn |-> "segmenta_clienti", inp |-> df] : df \in SegTables(n)}

InitSeg ==
    /\ pc = "ready"
    /\ \E c \in SegCalls(MaxRows) : fn = c.fn /\ inp = c.inp
    /\ out = <<>>

SegmentaClienti ==
    /\ pc = "ready"
    /\ fn = "segmenta_clienti"
    /\ out' = segmenta_clienti(inp)
    /\ pc' = "done"
    /\ UNCHANGED <<fn, inp>>

NextSeg == SegmentaClienti

SpecSeg == InitSeg /\ [][NextSeg]_vars

AggCalls(np, ni, nr) ==
    {[fn |-> "aggrega_pagamenti", inp |-> df] : df \in PagTables(np)}
    \cup {[fn |-> "aggrega_order_items", inp |-> df] : df \in ItemTables(ni)}
    \cup {[fn |-> "aggrega_reviews", inp |-> df] : df \in RevTables(nr)}

InitAgg ==
    /\ pc = "ready"
    /\ \E c \in AggCalls(MaxPagRows, MaxItemRows, MaxRevRows) : fn = c.fn /\ inp = c.inp
    /\ out = <<>>

AggregaPagamenti ==
    /\ pc = "ready"
    /\ fn = "aggrega_pagamenti"
    /\ out' = aggrega_pagamenti(inp)
    /\ pc' = "done"
    /\ UNCHANGED <<fn, inp>>

AggregaOrderItems ==
    /\ pc = "ready"
    /\ fn = "aggrega_order_items"
    /\ out' = aggrega_order_items(inp)
    /\ pc' = "done"
    /\ UNCHANGED <<fn, inp>>

AggregaReviews ==
    /\ pc = "ready"
    /\ fn = "aggrega_reviews"
    /\ out' = aggrega_reviews(inp)
    /\ pc' = "done"
    /\ UNCHANGED <<fn, inp>>

NextAgg == AggregaPagamenti \/ AggregaOrderItems \/ AggregaReviews

SpecAgg == InitAgg /\ [][NextAgg]_vars

InitBin ==
    /\ pc = "ready"
    /\ \E c \in BinCalls(MaxBinRows, MaxEdge) : fn = c.fn /\ inp = c.inp
    /\ out = <<>>

CreaCategorieBinning ==
    /\ pc = "ready"
    /\ fn = "crea_categorie_binning"
    /\ out' = crea_categorie_binning(inp.df, inp.colonna, inp.bins, inp.labels,
                                     inp.nome_output)
    /\ pc' = "done"
    /\ UNCHANGED <<fn, inp>>

NextBin == CreaCategorieBinning

SpecBin == InitBin /\ [][NextBin]_vars

InitTrad ==
    /\ pc = "ready"
    /\ \E c \in TradCalls(MaxTradRows) : fn = c.fn /\ inp = c.inp
    /\ out = <<>>

\* traduci_dataset(df, config.TRADUZIONE_COLONNE, traduzione_valori).
TraduciDataset ==
    /\ pc = "ready"
    /\ fn = "traduci_dataset"
    /\ out' = traduci_dataset(inp.df, TRADUZIONE_COLONNE, inp.traduzione_valori)
    /\ pc' = "done"
    /\ UNCHANGED <<fn, inp>>

\* The same call again, on the table the first call returned.
TraduciDiNuovo ==
    /\ pc = "done"
    /\ fn = "traduci_dataset"
    /\ inp' = [inp EXCEPT !.df = out]
    /\ out' = traduci_dataset(out, TRADUZIONE_COLONNE, inp.traduzione_valori)
    /\ pc' = "again"
    /\ UNCHANGED fn

NextTrad == TraduciDataset \/ TraduciDiNuovo

SpecTrad == InitTrad /\ [][NextTrad]_vars

TempCalls(n) ==
    {[fn |-> "calcola_metriche_temporali", inp |-> df] : df \in TempTables(n)}

InitTemp ==
    /\ pc = "ready"
    /\ \E c \in TempCalls(MaxTempRows) : fn = c.fn /\ inp = c.inp
    /\ out = <<>>

\* inp stays the table as it was given; out.df is that table after the call.
CalcolaMetricheTemporali ==
    /\ pc = "ready"
    /\ fn = "calcola_metriche_temporali"
    /\ out' = calcola_metriche_temporali(inp)
    /\ pc' = "done"
    /\ UNCHANGED <<fn, inp>>

NextTemp == CalcolaMetricheTemporali

SpecTemp == InitTemp /\ [][NextTemp]_vars

\* The segmenter and the aggregators on tables of every set of candidate
\* columns.
InitLookup ==
    /\ pc = "ready"
    /\ \E c \in SegCalls(MaxLookupRows)
                 \cup AggCalls(MaxLookupRows, MaxLookupRows, MaxLookupRows) :
          fn = c.fn /\ inp = c.inp
    /\ out = <<>>

NextLookup == NextSeg \/ NextAgg

SpecLookup == InitLookup /\ [][NextLookup]_vars

Init == InitSeg \/ InitAgg \/ InitBin \/ InitTrad \/ InitTemp

Next == NextSeg \/ NextAgg \/ NextBin \/ NextTrad \/ NextTemp

Spec == Init /\ [][Next]_vars

\* ------------------------------------------ properties: segmenta_clienti
SegDone == pc = "done" /\ fn = "segmenta_clienti"

\* The four logical fields of the segmenter all have a candidate column.
SegResolves(df) ==
    /\ \E c \in {"id_cliente", "customer_id"} : c \in df.cols
    /\ \E c \in {"id_ordine", "order_id"} : c \in df.cols
    /\ \E c \in {"totale_ordine_eur", "valore_pagamento_eur", "pagamento_totale"} :
          c \in df.cols
    /\ \E c \in {"data_acquisto", "order_purchase_timestamp"} : c \in df.cols

ColCliente(df) == TrovaColonna(CandidatiCliente, df.cols)
ColOrdine(df) == TrovaColonna(CandidatiOrdine, df.cols)
ColValore(df) == TrovaColonna(CandidatiValore, df.cols)
ColData(df) == TrovaColonna(CandidatiData, df.cols)

\* The customer identifiers that occur in the table.
Clienti(df) == {df.rows[i][ColCliente(df)] : i \in Indices(df.rows)} \ {NaN}

\* The rows of the table that belong to customer k.
RigheDi(df, k) == {i \in Indices(df.rows) : df.rows[i][ColCliente(df)] = k}

StatsRows == {out.stats.rows[j] : j \in Indices(out.stats.rows)}

\* Exactly one row of the segmentation table for every customer of the
\* input, and none for anybody else.
UnaRigaPerCliente ==
    /\ \A k \in Clienti(inp) :
          Cardinality({j \in Indices(out.stats.rows) :
                          out.stats.rows[j].id_cliente = k}) = 1
    /\ \A j \in Indices(out.stats.rows) : out.stats.rows[j].id_cliente \in Clienti(inp)

\* C1 as stated: one segmentation row per customer of the input, no order row
\* dropped, and every order row of the returned order table carries, in some
\* column the call added, the segment of its owning customer.
C1_Original ==
    (SegDone /\ SegResolves(inp)) =>
        /\ UnaRigaPerCliente
        /\ Len(out.df.rows) = Len(inp.rows)
        /\ \A i \in Indices(out.df.rows) :
              \E c \in out.df.cols \ inp.cols,
                 s \in {"segmento_frequenza", "segmento_valore"} \cap out.stats.cols :
                 \A r \in StatsRows :
                    r.id_cliente = inp.rows[i][ColCliente(inp)]
                        => out.df.rows[i][c] = r[s]

\* C1 amended: one segmentation row per (non-missing) customer identifier of
\* the input and no other row; the returned order table is the input table
\* itself, so no order row is dropped and none carries a segment column.
C1_Segmentation ==
    (SegDone /\ SegResolves(inp)) =>
        /\ UnaRigaPerCliente
        /\ out.df = inp

\* A table of four order rows of two customers has been segmented.
C1_Witness ==
    /\ SegDone /\ SegResolves(inp)
    /\ Len(inp.rows) = 4
    /\ Cardinality(Clienti(inp)) = 2
    /\ Len(out.stats.rows) = 2

\* The label the rule of C2 gives to a pair of scores.
RegolaSegmento(f, m) ==
    IF f >= 4 /\ m >= 4 THEN "High Value"
    ELSE IF f >= 3 /\ m >= 3 THEN "Medium Value"
    ELSE IF f <= 2 /\ m <= 2 THEN "Low Value"
    ELSE "Medium-Low Value"

\* C2 as stated: the segment label of every customer is the label the
\* first-match rule (High / Medium / Low / Medium-Low Value) gives to some
\* frequency score and monetary score in 1..5.
C2_Original ==
    SegDone =>
        \A r \in StatsRows :
            \E c \in {"segmento_frequenza", "segmento_valore"} \cap DOMAIN r,
               f \in 1..5, m \in 1..5 :
               r[c] = RegolaSegmento(f, m)

Rango(label) ==
    CASE label = "Basso" -> 1 [] label = "Medio" -> 2 [] label = "Alto" -> 3

\* C2 amended: the segment labels of a customer are decided by the customer's
\* own totals.  segmento_frequenza is decided by the first matching rule:
\* at least 4 distinct orders gives "Alta", else at least 2 gives "Media",
\* else 1 gives "Bassa" (no order identifier at all gives no label), so a
\* customer with an order receives exactly one frequency label.
\* segmento_valore, when the column exists, is one of Basso / Medio / Alto, it
\* never decreases as the total spent grows, the smallest total is "Basso"
\* and the largest "Alto".
C2_SegmentRules ==
    SegDone =>
        /\ \A r \in StatsRows :
              r.segmento_frequenza =
                 IF r.num_ordini >= 4 THEN "Alta"
                 ELSE IF r.num_ordini >= 2 THEN "Media"
                 ELSE IF r.num_ordini = 1 THEN "Bassa"
                 ELSE NaNLabel
        /\ "segmento_valore" \in out.stats.cols =>
              /\ \A r \in StatsRows : r.segmento_valore \in {"Basso", "Medio", "Alto"}
              /\ \A r1, r2 \in StatsRows :
                    r1.spesa_totale <= r2.spesa_totale
                        => Rango(r1.segmento_valore) <= Rango(r2.segmento_valore)
              /\ \E r1, r2 \in StatsRows :
                    r1.segmento_valore = "Basso" /\ r2.segmento_valore = "Alto"

\* A segmentation of three customers with two frequency labels and the three
\* value labels.
C2_Witness ==
    /\ SegDone
    /\ "segmento_valore" \in out.stats.cols
    /\ {r.segmento_frequenza : r \in StatsRows} = {"Bassa", "Media"}
    /\ {r.segmento_valore : r \in StatsRows} = {"Basso", "Medio", "Alto"}

\* The cells of column col in the rows of customer k, as a set of
\* (row, cell) pairs.
CelleDi(df, k, col) == {<<i, df.rows[i][col]>> : i \in RigheDi(df, k)}

RECURSIVE Somma(_)
Somma(pairs) ==
    IF pairs = {} THEN 0
    ELSE LET p == CHOOSE p \in pairs : TRUE
         IN (IF p[2] = NaN THEN 0 ELSE p[2]) + Somma(pairs \ {p})

Valori(pairs) == {p[2] : p \in pairs} \ {NaN}

\* Frequency and monetary of every segmentation row are the distinct orders
\* and the summed amount of the customer's rows.
FrequenzaEMonetario ==
    \A r \in StatsRows :
        /\ r.num_ordini = Cardinality(Valori(CelleDi(inp, r.id_cliente, ColOrdine(inp))))
        /\ r.spesa_totale = Somma(CelleDi(inp, r.id_cliente, ColValore(inp)))

\* The input is the scenario of C3 under the first candidate columns.
Scenario(df) ==
    /\ {"id_cliente", "id_ordine", "totale_ordine_eur", "data_acquisto"} \subseteq df.cols
    /\ Len(df.rows) = 4
    /\ \A i \in 1..4 : \A k \in df.cols : df.rows[i][k] = RighePool[i][k]

\* C3 as stated: frequency, monetary and a recency column holding the whole
\* days from the day after the latest purchase of all to the customer's own
\* latest purchase, at least 1.
C3_Original ==
    (SegDone /\ SegResolves(inp) /\ inp.rows # <<>>) =>
        /\ FrequenzaEMonetario
        /\ LET ref == SetMax({inp.rows[i][ColData(inp)] : i \in Indices(inp.rows)}) + 1
           IN \E c \in out.stats.cols
                    \ {"spesa_media_ordine", "segmento_frequenza", "segmento_valore"} :
                 \A r \in StatsRows :
                    /\ r[c] >= 1
                    /\ r[c] = ref - SetMax(Valori(CelleDi(inp, r.id_cliente, ColData(inp))))

\* C3 amended: per customer, num_ordini is the number of distinct order
\* identifiers, spesa_totale the sum of the resolved value column,
\* primo_acquisto and ultimo_acquisto the earliest and latest purchase and
\* vita_cliente_giorni the whole days between the two (at least 0); no
\* recency is computed.  In the scenario customer 1 has 3 orders, 300 spent,
\* 19 days between first and last purchase; customer 2 has 1, 10 and 0.
C3_Metrics ==
    (SegDone /\ SegResolves(inp)) =>
        /\ FrequenzaEMonetario
        /\ \A r \in StatsRows :
              LET date == Valori(CelleDi(inp, r.id_cliente, ColData(inp)))
              IN /\ r.primo_acquisto = SetMin(date)
                 /\ r.ultimo_acquisto = SetMax(date)
                 /\ r.vita_cliente_giorni = SetMax(date) - SetMin(date)
                 /\ r.vita_cliente_giorni >= 0
        /\ out.stats.cols \cap {"recency", "recenza", "giorni_da_ultimo_acquisto"} = {}
        /\ Scenario(inp) =>
              \E r1, r2 \in StatsRows :
                 /\ StatsRows = {r1, r2}
                 /\ r1.id_cliente = 1 /\ r1.num_ordini = 3 /\ r1.spesa_totale = 300
                 /\ r1.vita_cliente_giorni = 19
                 /\ r2.id_cliente = 2 /\ r2.num_ordini = 1 /\ r2.spesa_totale = 10
                 /\ r2.vita_cliente_giorni = 0

\* The scenario has been segmented.
C3_Witness == SegDone /\ Scenario(inp) /\ Len(out.stats.rows) = 2

\* C4: with the customer, order, date or every monetary column absent the
\* call returns the table it was given, unchanged, and an empty
\* segmentation (a returned pair, not an exception).
C4_MissingColumns ==
    (SegDone /\ ~ SegResolves(inp)) =>
        /\ out.df = inp
        /\ out.stats = EmptyFrame

\* A table with rows and with every field but the monetary one has been
\* given to the segmenter.
C4_Witness ==
    /\ SegDone
    /\ inp.rows # <<>>
    /\ {"id_cliente", "id_ordine", "data_acquisto"} \subseteq inp.cols
    /\ inp.cols \cap {"totale_ordine_eur", "valore_pagamento_eur", "pagamento_totale"} = {}
    /\ out.stats = EmptyFrame

\* C10 as stated: whatever the totals, every customer of a segmented table
\* receives a value segment.
C10_Claim ==
    (SegDone /\ SegResolves(inp)) =>
        \A r \in StatsRows :
            /\ "segmento_valore" \in DOMAIN r
            /\ r.segmento_valore # NaNLabel

\* ---------------------------------------------- properties: aggregations
PagDone == pc = "done" /\ fn = "aggrega_pagamenti"

AggDone ==
    pc = "done" /\ fn \in {"aggrega_pagamenti", "aggrega_order_items", "aggrega_reviews"}

Has(df, names) == df.cols \cap names # {}

IdNames == {"id_ordine", "order_id"}
ValNames == {"valore_pagamento_eur", "payment_value", "valore_pagamento"}
TypeNames == {"tipo_pagamento", "payment_type"}
SeqNames == {"sequenza_pagamento", "payment_sequential"}

ColId(df) == TrovaColonna(CandidatiIdOrdine, df.cols)

\* The order identifiers that occur in the table.
Ordini(df) == {df.rows[i][ColId(df)] : i \in Indices(df.rows)} \ {NaN}

\* Exactly one row of the result for every order identifier of the input,
\* and none for any other identifier.
UnaRigaPerOrdine ==
    /\ ColId(inp) \in out.cols
    /\ \A k \in Ordini(inp) :
          Cardinality({j \in Indices(out.rows) : out.rows[j][ColId(inp)] = k}) = 1
    /\ \A j \in Indices(out.rows) : out.rows[j][ColId(inp)] \in Ordini(inp)

\* C6 as stated: a non-empty payments table with an order-identifier column
\* and no payment-value column aggregates to an empty result, whatever other
\* columns it has.
C6_Original ==
    (PagDone /\ ~ IsEmpty(inp) /\ Has(inp, IdNames) /\ ~ Has(inp, ValNames)) =>
        out = EmptyFrame

\* C6 amended: such a table aggregates to an empty result exactly when it has
\* no payment-type and no payment-sequence column either; otherwise the
\* result has one row per order identifier with the aggregates of the columns
\* that are there (num_pagamenti, tipo_pagamento_principale) and no
\* pagamento_totale.  The call returns in both cases.
C6_MissingValueColumn ==
    (PagDone /\ ~ IsEmpty(inp) /\ Has(inp, IdNames) /\ ~ Has(inp, ValNames)) =>
        IF ~ Has(inp, TypeNames) /\ ~ Has(inp, SeqNames) THEN out = EmptyFrame
        ELSE /\ UnaRigaPerOrdine
             /\ out.cols = {ColId(inp)}
                    \cup (IF Has(inp, SeqNames) THEN {"num_pagamenti"} ELSE {})
                    \cup (IF Has(inp, TypeNames) THEN {"tipo_pagamento_principale"} ELSE {})

\* A payments table with two orders, a payment type and no amount has been
\* aggregated to two rows.
C6_Witness ==
    /\ PagDone /\ ~ IsEmpty(inp) /\ Has(inp, IdNames) /\ ~ Has(inp, ValNames)
    /\ "tipo_pagamento" \in inp.cols
    /\ Cardinality(Ordini(inp)) = 2
    /\ Len(out.rows) = 2

\* The columns each aggregator can aggregate.
Aggregabili ==
    CASE fn = "aggrega_pagamenti" -> ValNames \cup TypeNames \cup SeqNames
      [] fn = "aggrega_order_items" ->
            {"id_articolo_ordine", "order_item_id", "prezzo_eur", "price", "prezzo",
             "costo_spedizione_eur", "freight_value", "costo_spedizione",
             "totale_articolo_eur", "totale_ordine_eur"}
      [] fn = "aggrega_reviews" ->
            {"punteggio_recensione", "review_score", "id_recensione", "review_id"}

\* C7: each aggregator returns exactly one row per distinct order identifier
\* of a non-empty table that has an identifier column and something to
\* aggregate, no row for any other identifier, and an empty result for an
\* empty table or a table without identifier column.
C7_OneRowPerOrder ==
    AggDone =>
        /\ (~ IsEmpty(inp) /\ Has(inp, IdNames) /\ Has(inp, Aggregabili))
              => UnaRigaPerOrdine
        /\ (IsEmpty(inp) \/ ~ Has(inp, IdNames)) => out = EmptyFrame

\* An items table with two rows of one order has been aggregated to one row.
C7_Witness ==
    /\ pc = "done" /\ fn = "aggrega_order_items"
    /\ Has(inp, IdNames) /\ Has(inp, Aggregabili)
    /\ Len(inp.rows) = 2
    /\ Cardinality(Ordini(inp)) = 1
    /\ Len(out.rows) = 1

ColTipo(df) == TrovaColonna(<<"tipo_pagamento", "payment_type">>, df.cols)

\* The payment types of order k, in row order.
TipiDi(df, k) == GroupCells(df.rows, ColId(df), k, ColTipo(df))

\* The payment types of highest frequency among cells.
PiuFrequenti(cells) ==
    {v \in {cells[i] : i \in Indices(cells)} \ {NaNLabel} :
        \A i \in Indices(cells) :
            cells[i] # NaNLabel => Occorrenze(cells, cells[i]) <= Occorrenze(cells, v)}

PagConTipo ==
    PagDone /\ ~ IsEmpty(inp) /\ Has(inp, IdNames) /\ Has(inp, TypeNames)

\* C9 as stated: tipo_pagamento_principale of every order is a payment type
\* of highest frequency among the order's rows, on a tie the one that
\* occurs first in row order, and the missing value when no row has a type.
C9_Original ==
    PagConTipo =>
        \A j \in Indices(out.rows) :
            LET cells == TipiDi(inp, out.rows[j][ColId(inp)])
                tipo  == out.rows[j].tipo_pagamento_principale
            IN IF PiuFrequenti(cells) = {} THEN tipo = NaNLabel
               ELSE /\ tipo \in PiuFrequenti(cells)
                    /\ \E i \in Indices(cells) :
                          /\ cells[i] = tipo
                          /\ \A h \in 1..(i - 1) : cells[h] \notin PiuFrequenti(cells)

\* C9 amended: tipo_pagamento_principale of every order is a payment type of
\* highest frequency among the order's rows; on a tie it is the smallest of
\* the tied types in sort (lexicographic) order, whatever the order of the
\* rows; when no row of the order has a type it is None (a missing value).
C9_PrincipalType ==
    PagConTipo =>
        \A j \in Indices(out.rows) :
            LET cells == TipiDi(inp, out.rows[j][ColId(inp)])
                tipo  == out.rows[j].tipo_pagamento_principale
            IN IF PiuFrequenti(cells) = {} THEN tipo = NaNLabel
               ELSE /\ tipo \in PiuFrequenti(cells)
                    /\ \A v \in PiuFrequenti(cells) : Lessico[tipo] <= Lessico[v]

\* An order paid first by voucher, then by boleto, has been aggregated, and
\* so has an order with no payment type.
C9_Witness ==
    /\ PagConTipo
    /\ "tipo_pagamento" \in inp.cols /\ "id_ordine" \in inp.cols
    /\ Len(inp.rows) = 3
    /\ inp.rows[1].tipo_pagamento = "voucher" /\ inp.rows[1].id_ordine = 1
    /\ inp.rows[2].tipo_pagamento = "boleto" /\ inp.rows[2].id_ordine = 1
    /\ inp.rows[3].tipo_pagamento = NaNLabel /\ inp.rows[3].id_ordine = 2
    /\ Len(out.rows) = 2

\* -------------------------------------- properties: crea_categorie_binning
BinDone == pc = "done" /\ fn = "crea_categorie_binning"

OutCol == IF inp.nome_output = None THEN "valore_cat" ELSE inp.nome_output

\* The intervals (edge[j], edge[j+1]] that hold v, the first one holding
\* its lower edge too.
Intervalli(bins, v) ==
    {j \in 1..(Len(bins) - 1) :
        \/ bins[j] < v /\ v <= bins[j + 1]
        \/ j = 1 /\ v = bins[1]}

\* C5: every value between the outer edges (both included) gets exactly one
\* label, that of the interval (edge[i-1], edge[i]] holding it, the lowest
\* edge getting the first label; a value outside the outer edges and a
\* missing value get a missing category; the call returns a table with all
\* the rows.
C5_BinningCoverage ==
    (BinDone /\ inp.colonna \in inp.df.cols) =>
        /\ Len(out.rows) = Len(inp.df.rows)
        /\ \A i \in Indices(out.rows) :
              LET v   == inp.df.rows[i][inp.colonna]
                  cat == out.rows[i][OutCol]
                  n   == Len(inp.bins)
              IN IF v # NaN /\ inp.bins[1] <= v /\ v <= inp.bins[n]
                 THEN /\ cat # NaNLabel
                      /\ Cardinality(Intervalli(inp.bins, v)) = 1
                      /\ \A j \in Intervalli(inp.bins, v) : cat = inp.labels[j]
                      /\ v = inp.bins[1] => cat = inp.labels[1]
                 ELSE cat = NaNLabel

\* A lowest edge and a missing value have been binned.
C5_Witness ==
    /\ BinDone /\ inp.colonna \in inp.df.cols
    /\ Len(inp.df.rows) = 2
    /\ inp.df.rows[1][inp.colonna] = inp.bins[1]
    /\ inp.df.rows[2][inp.colonna] = NaN
    /\ out.rows[1][OutCol] = inp.labels[1]
    /\ out.rows[2][OutCol] = NaNLabel

\* ---------------------------------------------- properties: traduci_dataset
\* The cell of row i under the column that column c of the input became.
Tradotta(i, c) == out.rows[i][Translate(TRADUZIONE_COLONNE, c)]

\* C8: translating the translated table again changes nothing; the first
\* translation renames the columns the map knows and keeps the others, adds
\* no column for a map entry whose source is absent, and leaves unchanged
\* (never nulls) every cell that has no entry in its column's value map.
C8_Idempotence ==
    /\ (pc = "again" /\ fn = "traduci_dataset") => out = inp.df
    /\ (pc = "done" /\ fn = "traduci_dataset") =>
          /\ out.cols = {Translate(TRADUZIONE_COLONNE, c) : c \in inp.df.cols}
          /\ Len(out.rows) = Len(inp.df.rows)
          /\ \A i \in Indices(out.rows) : \A c \in inp.df.cols :
                LET n    == Translate(TRADUZIONE_COLONNE, c)
                    cell == inp.df.rows[i][c]
                IN IF n \in DOMAIN inp.traduzione_valori
                      /\ cell \in DOMAIN inp.traduzione_valori[n]
                   THEN Tradotta(i, c) = inp.traduzione_valori[n][cell]
                   ELSE Tradotta(i, c) = cell

\* A table with an original column name, a mapped and an unmapped payment
\* type has been translated twice.
C8_Witness ==
    /\ pc = "again" /\ fn = "traduci_dataset"
    /\ "tipo_pagamento" \in inp.df.cols
    /\ "tipo_pagamento" \in DOMAIN inp.traduzione_valori
    /\ \E i, j \in Indices(out.rows) :
          /\ out.rows[i].tipo_pagamento = "carta_di_credito"
          /\ out.rows[j].tipo_pagamento = "paypal"

\* ------------------------------- properties: calcola_metriche_temporali
TempDone == pc = "done" /\ fn = "calcola_metriche_temporali"

\* d is the duration from timestamp b to timestamp a in whole days: the
\* largest number of days that is not more than the duration.
GiorniInteri(d, a, b) ==
    /\ d * PerGiorno <= a - b
    /\ a - b < (d + 1) * PerGiorno

\* Column c of the table returned holds, on every row, the whole days from
\* column b to column a of the input, and the missing value where an
\* endpoint is missing.
Durata(c, a, b) ==
    /\ c \in out.df_copy.cols
    /\ \A i \in Indices(inp.rows) :
          LET r == inp.rows[i]
              d == out.df_copy.rows[i][c]
          IN  IF r[a] = NaN \/ r[b] = NaN THEN d = NaNGiorni
              ELSE GiorniInteri(d, r[a], r[b])

\* The columns the function writes.
Derivate ==
    {"giorni_consegna", "ritardo_consegna", "mese_acquisto", "anno_acquisto",
     "giorno_settimana"}

\* The input columns in cs are columns of the table returned, with the
\* values of the input.
Conservate(cs) ==
    /\ Len(out.df_copy.rows) = Len(inp.rows)
    /\ \A c \in cs :
          /\ c \in out.df_copy.cols
          /\ \A i \in Indices(inp.rows) : out.df_copy.rows[i][c] = inp.rows[i][c]

\* C11 as stated: each of the three durations whose two timestamp columns
\* are present is added as a column of whole days (approval to shipment in
\* a column the function adds, purchase to delivery, delivery delay), with a
\* missing metric where an endpoint is missing; every input column keeps its
\* values and the input table is not modified.
C11_Original ==
    TempDone =>
        /\ {"data_spedizione", "data_approvazione"} \subseteq inp.cols
              => \E c \in out.df_copy.cols \ (inp.cols \cup Derivate) :
                     Durata(c, "data_spedizione", "data_approvazione")
        /\ {"data_consegna", "data_acquisto"} \subseteq inp.cols
              => Durata("giorni_consegna", "data_consegna", "data_acquisto")
        /\ {"data_consegna", "data_consegna_stimata"} \subseteq inp.cols
              => Durata("ritardo_consegna", "data_consegna", "data_consegna_stimata")
        /\ Conservate(inp.cols)
        /\ out.df = inp

\* The columns the function writes on a table with the columns cs.
Scritte(cs) ==
    (IF {"data_consegna", "data_acquisto"} \subseteq cs
     THEN {"giorni_consegna"} ELSE {})
    \cup (IF {"data_consegna", "data_consegna_stimata"} \subseteq cs
          THEN {"ritardo_consegna"} ELSE {})
    \cup (IF "data_acquisto" \in cs
          THEN {"mese_acquisto", "anno_acquisto", "giorno_settimana"} ELSE {})

\* C11 as amended: calcola_metriche_temporali computes two durations, from
\* the translated column names only: giorni_consegna (data_consegna minus
\* data_acquisto) and ritardo_consegna (data_consegna minus
\* data_consegna_stimata, negative when early), each in whole days rounded
\* down and missing where an endpoint is missing, each when its two columns
\* are present; no approval-to-shipment duration is computed.  The table
\* returned has the input columns and the columns written (the durations,
\* and mese_acquisto, anno_acquisto, giorno_settimana when data_acquisto is
\* present); every input column that is not one of the columns written
\* keeps its values, and the input table is not modified.
C11_TemporalMetrics ==
    TempDone =>
        /\ out.df_copy.cols = inp.cols \cup Scritte(inp.cols)
        /\ {"data_consegna", "data_acquisto"} \subseteq inp.cols
              => Durata("giorni_consegna", "data_consegna", "data_acquisto")
        /\ {"data_consegna", "data_consegna_stimata"} \subseteq inp.cols
              => Durata("ritardo_consegna", "data_consegna", "data_consegna_stimata")
        /\ Conservate(inp.cols \ Scritte(inp.cols))
        /\ out.df = inp

\* A call on a table with the five timestamps and a giorni_consegna column
\* of its own, with an early delivery of a fraction of a day and an order
\* not yet delivered.
C11_Witness ==
    /\ TempDone
    /\ TempColumns \subseteq inp.cols
    /\ \E i \in Indices(inp.rows) :
          /\ inp.rows[i]["data_consegna"] # NaN
          /\ inp.rows[i]["data_consegna"] < inp.rows[i]["data_consegna_stimata"]
          /\ (inp.rows[i]["data_consegna_stimata"] - inp.rows[i]["data_consegna"])
                % PerGiorno # 0
          /\ out.df_copy.rows[i]["ritardo_consegna"] < 0
          /\ out.df_copy.rows[i]["giorni_consegna"] # inp.rows[i]["giorni_consegna"]
    /\ \E i \in Indices(inp.rows) :
          /\ inp.rows[i]["data_consegna"] = NaN
          /\ out.df_copy.rows[i]["giorni_consegna"] = NaNGiorni

\* ---------------------------------------- properties: column resolution
\* The first name of the list cands, in list order, that is in cols; None
\* when none is.
Primo(cands, cols) ==
    IF \A i \in Indices(cands) : cands[i] \notin cols THEN None
    ELSE cands[CHOOSE i \in Indices(cands) :
                  /\ cands[i] \in cols
                  /\ \A j \in 1..(i - 1) : cands[j] \notin cols]

\* The logical fields of an aggregator other than the order identifier:
\* output column, candidate list, aggregation.
CampiDi(f) ==
    CASE f = "aggrega_pagamenti" ->
           {<<"pagamento_totale",
              <<"valore_pagamento_eur", "payment_value", "valore_pagamento">>, "sum">>,
            <<"num_pagamenti", <<"sequenza_pagamento", "payment_sequential">>, "max">>,
            <<"tipo_pagamento_principale", <<"tipo_pagamento", "payment_type">>, "mode">>}
      [] f = "aggrega_order_items" ->
           {<<"num_articoli", <<"id_articolo_ordine", "order_item_id">>, "count">>,
            <<"prezzo_totale", <<"prezzo_eur", "price", "prezzo">>, "sum">>,
            <<"spedizione_totale",
              <<"costo_spedizione_eur", "freight_value", "costo_spedizione">>, "sum">>,
            <<"totale_ordine_eur", <<"totale_articolo_eur", "totale_ordine_eur">>, "sum">>}
      [] f = "aggrega_reviews" ->
           {<<"punteggio_medio", <<"punteggio_recensione", "review_score">>, "mean">>,
            <<"num_recensioni", <<"id_recensione", "review_id">>, "count">>}

\* The non-missing values of column col of the table.
ValoriDi(df, col) == {df.rows[i][col] : i \in Indices(df.rows)} \ {NaN}

\* An aggregator used, for every logical field, the first candidate column
\* of the table: the result is keyed by the first order-identifier column,
\* it has the output column of exactly the fields with a candidate in the
\* table, and every cell aggregates the first candidate of its field.
LookupAgg ==
    LET id     == Primo(<<"id_ordine", "order_id">>, inp.cols)
        found  == {e \in CampiDi(fn) : Primo(e[2], inp.cols) # None}
    IN  IF id = None \/ found = {} THEN out = EmptyFrame
        ELSE /\ out.cols = {id} \cup {e[1] : e \in found}
             /\ ValoriDi(out, id) = ValoriDi(inp, id)
             /\ \A j \in Indices(out.rows) : \A e \in found :
                   out.rows[j][e[1]] =
                       Agg(e[3], GroupCells(inp.rows, id, out.rows[j][id],
                                            Primo(e[2], inp.cols)))

\* The segmenter used, for every logical field, the first candidate column
\* of the table: without a column for one of the four fields there is no
\* segmentation; otherwise the customers are those of the first customer
\* column and their orders, amounts and dates are counted, summed and
\* compared on the first order, monetary and date columns.
LookupSeg ==
    LET cli == Primo(<<"id_cliente", "customer_id">>, inp.cols)
        ord == Primo(<<"id_ordine", "order_id">>, inp.cols)
        val == Primo(<<"totale_ordine_eur", "valore_pagamento_eur",
                       "pagamento_totale">>, inp.cols)
        dat == Primo(<<"data_acquisto", "order_purchase_timestamp">>, inp.cols)
    IN  /\ out.df = inp
        /\ IF None \in {cli, ord, val, dat} THEN out.stats = EmptyFrame
           ELSE /\ {r.id_cliente : r \in StatsRows} = ValoriDi(inp, cli)
                /\ \A r \in StatsRows :
                      LET R == {i \in Indices(inp.rows) : inp.rows[i][cli] = r.id_cliente}
                      IN  /\ r.spesa_totale = Somma({<<i, inp.rows[i][val]>> : i \in R})
                          /\ r.num_ordini =
                                Cardinality({inp.rows[i][ord] : i \in R} \ {NaN})
                          /\ r.primo_acquisto = SetMin({inp.rows[i][dat] : i \in R})
                          /\ r.ultimo_acquisto = SetMax({inp.rows[i][dat] : i \in R})

Lookups ==
    /\ SegDone => LookupSeg
    /\ (AggDone /\ ~ IsEmpty(inp)) => LookupAgg

\* C12: every call of the segmenter or of an aggregator leaves the table it
\* was given as it is and resolves each logical field to the first name of
\* its candidate list that is a column of the table, to nothing when no
\* candidate is; the segmenter sums the first available of
\* totale_ordine_eur, valore_pagamento_eur, pagamento_totale.
C12_ColumnResolution ==
    [][(pc = "ready" /\ pc' = "done") => (inp' = inp /\ Lookups')]_vars

\* A segmentation of a table that holds the three monetary columns, on which
\* some customer's total differs from one candidate to the next.
C12_Witness ==
    /\ SegDone
    /\ {"totale_ordine_eur", "valore_pagamento_eur", "pagamento_totale"} \subseteq inp.cols
    /\ "id_cliente" \notin inp.cols
    /\ \E r \in StatsRows :
          LET R == {i \in Indices(inp.rows) : inp.rows[i]["customer_id"] = r.id_cliente}
              tot(c) == Somma({<<i, inp.rows[i][c]>> : i \in R})
          IN  /\ Cardinality(R) > 1
              /\ r.spesa_totale = tot("totale_ordine_eur")
              /\ tot("totale_ordine_eur") # tot("valore_pagamento_eur")
              /\ tot("valore_pagamento_eur") # tot("pagamento_totale")
              /\ tot("totale_ordine_eur") # tot("pagamento_totale")

====
